---- MODULE Spec2Model ----
(***************************************************************************)
(* A model of split_527_data.py: the two-pass splitter of an IRS 527 data  *)
(* file.  Pass one collects the PAC names; pass two routes every line to   *)
(* the sink of its record type, with the B lines processed by a thread     *)
(* pool (process_b_record) and written by one writer thread                *)
(* (write_b_records).                                                      *)
(*                                                                         *)
(* A string is a sequence of one-character strings, a line is the sequence *)
(* of its fields (what line.strip().split("|") yields).  Amounts are       *)
(* integers: the floating-point rounding of the sums is not modelled.      *)
(***************************************************************************)
EXTENDS Integers, Sequences, FiniteSets, TLC

(***************************************************************************)
(* Bounds of the model.                                                    *)
(***************************************************************************)
\* the longest input file, in lines
MaxLines == 2
\* the largest thread pool (ThreadPoolExecutor(max_workers=8) in the source)
MaxWorkers == 2
\* the largest write queue (queue.Queue(maxsize=1000) in the source)
MaxQueue == 2
\* the writer's batch size (1000 in the source, scaled to the input length)
BatchSize == 2

(***************************************************************************)
(* Program constants.                                                      *)
(***************************************************************************)
THRESHOLD == 60
\* len(headers["B"])
expected_fields == 18
\* the minimum number of fields of a B line
MinFieldsB == 14

None == <<"None">>

(***************************************************************************)
(* Strings.                                                                *)
(***************************************************************************)
\* ord(c), for the characters of the model's names
Ord(c) ==
    CASE c = " " -> 32
      [] c = "F" -> 70
      [] c = "J" -> 74
      [] c = "f" -> 102
      [] c = "j" -> 106
      [] c = "k" -> 107
      [] OTHER -> 120

\* str.lower(), one character
LowerChar(c) ==
    CASE c = "F" -> "f"
      [] c = "J" -> "j"
      [] c = "T" -> "t"
      [] OTHER -> c

\* str.lower()
Lower(s) == [i \in 1..Len(s) |-> LowerChar(s[i])]

\* s1 < s2 as Python compares strings
RECURSIVE StrLess(_, _)
StrLess(s1, s2) ==
    IF s2 = <<>> THEN FALSE
    ELSE IF s1 = <<>> THEN TRUE
    ELSE IF Ord(s1[1]) # Ord(s2[1]) THEN Ord(s1[1]) < Ord(s2[1])
    ELSE StrLess(Tail(s1), Tail(s2))

\* str.split(): the whitespace-delimited tokens of s
RECURSIVE SplitFrom(_, _, _)
SplitFrom(s, i, cur) ==
    IF i > Len(s) THEN (IF cur = <<>> THEN <<>> ELSE <<cur>>)
    ELSE IF s[i] = " "
         THEN (IF cur = <<>> THEN <<>> ELSE <<cur>>) \o SplitFrom(s, i + 1, <<>>)
         ELSE SplitFrom(s, i + 1, Append(cur, s[i]))

Split(s) == SplitFrom(s, 1, <<>>)

\* sorted(tokens)
RECURSIVE Insert(_, _)
Insert(t, ts) ==
    IF ts = <<>> THEN <<t>>
    ELSE IF StrLess(t, ts[1]) THEN <<t>> \o ts
    ELSE <<ts[1]>> \o Insert(t, Tail(ts))

RECURSIVE Sorted(_)
Sorted(ts) == IF ts = <<>> THEN <<>> ELSE Insert(ts[1], Sorted(Tail(ts)))

\* " ".join(tokens)
RECURSIVE Join(_)
Join(ts) ==
    IF ts = <<>> THEN <<>>
    ELSE IF Len(ts) = 1 THEN ts[1]
    ELSE ts[1] \o <<" ">> \o Join(Tail(ts))

\* the length of the longest common subsequence of s1 and s2
RECURSIVE LCS(_, _)
LCS(s1, s2) ==
    IF s1 = <<>> \/ s2 = <<>> THEN 0
    ELSE IF s1[1] = s2[1] THEN 1 + LCS(Tail(s1), Tail(s2))
    ELSE LET a == LCS(Tail(s1), s2)
             b == LCS(s1, Tail(s2))
         IN  IF a >= b THEN a ELSE b

\* fuzz.ratio: the normalized Indel similarity, 0..100 (rounded down)
Ratio(s1, s2) ==
    IF Len(s1) + Len(s2) = 0 THEN 100
    ELSE (200 * LCS(s1, s2)) \div (Len(s1) + Len(s2))

\* sorted_s = " ".join(sorted(s.split()))
SortedTokens(s) == Join(Sorted(Split(s)))

\* fuzz.token_sort_ratio: the ratio of the two strings with their tokens sorted
token_sort_ratio(s1, s2) == Ratio(SortedTokens(s1), SortedTokens(s2))

\* keyword in purpose
Contains(sub, s) ==
    \E i \in 1..(Len(s) - Len(sub) + 1) : SubSeq(s, i, i + Len(sub) - 1) = sub

transfer_keywords ==
    << <<"c","o","n","t","r","i","b","u","t","i","o","n">>,
       <<"d","o","n","a","t","i","o","n">>,
       <<"t","r","a","n","s","f","e","r">>,
       <<"p","o","l","i","t","i","c","a","l"," ","c","o","n","t","r","i","b","u","t","i","o","n">> >>

Digits == <<"0", "1", "2", "3", "4", "5", "6", "7", "8", "9">>

IsDigit(c) == \E d \in 1..10 : Digits[d] = c

DigitVal(c) == (CHOOSE d \in 1..10 : Digits[d] = c) - 1

RECURSIVE NatVal(_)
NatVal(s) == IF s = <<>> THEN 0 ELSE 10 * NatVal(SubSeq(s, 1, Len(s) - 1)) + DigitVal(s[Len(s)])

Unsigned(s) == IF s # <<>> /\ s[1] \in {"-", "+"} THEN Tail(s) ELSE s

\* whether float(s) succeeds, for s over digits, signs and letters
IsNumeric(s) == Unsigned(s) # <<>> /\ \A i \in 1..Len(Unsigned(s)) : IsDigit(Unsigned(s)[i])

\* float(s)
Float(s) == IF s[1] = "-" THEN 0 - NatVal(Unsigned(s)) ELSE NatVal(Unsigned(s))

\* str(n), n >= 0
RECURSIVE Str(_)
Str(n) == IF n < 10 THEN <<Digits[n + 1]>> ELSE Str(n \div 10) \o <<Digits[(n % 10) + 1]>>

(***************************************************************************)
(* The record schema and the input lines.                                  *)
(***************************************************************************)
tH == <<"H">>
t1 == <<"1">>
tD == <<"D">>
tR == <<"R">>
tBuff == <<"B", "u", "f", "f">>
t2 == <<"2">>
tA == <<"A">>
tB == <<"B">>
tF == <<"F">>

\* the keys of headers, which are the keys of output_files
RecordTypes == {tH, t1, tD, tR, tBuff, t2, tA, tB, tF}

\* len(headers[record_type])
HeaderWidth(record_type) ==
    CASE record_type = tH -> 4
      [] record_type = t1 -> 45
      [] record_type = tD -> 13
      [] record_type = tR -> 13
      [] record_type = tBuff -> 5
      [] record_type = t2 -> 48
      [] record_type = tA -> 17
      [] record_type = tB -> 18
      [] record_type = tF -> 3

\* a line of n fields: its discriminator, fields[5], fields[13], fields[16]
\* and, when n > 17, fields[17]; the other fields are empty
Rec(record_type, n, name, amount, purpose, last) ==
    [i \in 1..n |->
        CASE i = 1 -> record_type
          [] i = 6 -> name
          [] i = 14 -> amount
          [] i = 17 -> purpose
          [] i = 18 -> last
          [] OTHER -> <<>>]

\* a type 1 line of n fields with fields[7] the organization name
Org(n, name) == [i \in 1..n |-> IF i = 1 THEN t1 ELSE IF i = 8 THEN name ELSE <<>>]

pTransfers == <<"T", "r", "a", "n", "s", "f", "e", "r", "s">>
pRent == <<"r", "e", "n", "t">>

\* the lines an input file is made of
Lines ==
    << Org(8, <<"J", " ", "F">>),
       <<tH, <<"x">>>>,
       Rec(tA, 17, <<"k">>, <<"5">>, <<>>, <<>>),
       Rec(tA, 14, <<"k">>, <<"a", "b", "c">>, <<>>, <<>>),
       <<<<"X">>, <<"x">>>>,
       <<<<>>>>,
       Rec(tB, 13, <<"f", " ", "j">>, <<>>, <<>>, <<>>),
       Rec(tB, 19, <<"F", " ", "J">>, <<"5">>, pTransfers, <<"z">>),
       Rec(tB, 17, <<"j">>, <<"-", "7">>, pRent, <<>>),
       Rec(tB, 14, <<>>, <<>>, <<>>, <<>>),
       Rec(tB, 17, <<"f", " ", "j">>, <<"a", "b", "c">>, pTransfers, <<>>),
       Org(8, <<>>),
       Rec(tB, 17, <<" ">>, <<"5">>, pTransfers, <<>>) >>

\* the names of the lines, as pass one and process_b_record lower-case them
Names ==
    {Lower(Lines[k][6]) : k \in {l \in 1..Len(Lines) : Len(Lines[l]) >= 6}}
        \cup {Lower(Lines[k][8]) : k \in {l \in 1..Len(Lines) : Len(Lines[l]) >= 8}}

\* the scorer of extractOne on the names of the lines, computed once
Scores == [query \in Names, choice \in Names |-> token_sort_ratio(query, choice)]

\* process.extractOne(query, choices, scorer=fuzz.token_sort_ratio): the best
\* choice with its score, None for no choices; the same choice on every call
extractOne(query, choices) ==
    IF choices = {} THEN None
    ELSE LET best == CHOOSE c \in choices :
                        \A d \in choices : Scores[query, d] <= Scores[query, c]
         IN  <<best, Scores[query, best]>>

RECURSIVE SeqsUpTo(_, _)
SeqsUpTo(S, n) ==
    IF n = 0 THEN {<<>>}
    ELSE LET shorter == SeqsUpTo(S, n - 1)
         IN  shorter \cup {Append(q, x) : q \in {r \in shorter : Len(r) = n - 1}, x \in S}

\* the input files of the model
Inputs == SeqsUpTo(1..Len(Lines), MaxLines)

(***************************************************************************)
(* The state.                                                              *)
(***************************************************************************)
VARIABLES
    infile,             \* FullDataFile.txt: the indices in Lines of its lines
    max_workers,        \* the size of the thread pool
    maxsize,            \* the capacity of b_record_queue
    pc,                 \* where the main thread is
    pos,                \* the lines the current pass has read
    pac_names,          \* the names pass one collected
    stats,              \* the statistics
    stats_lock,         \* 0 when free, else who holds it: "main" or a task
    fuzzy_cache,        \* recipient name -> <<match, score>>
    histogram,          \* bin_key -> count
    b_record_queue,     \* the records waiting for the writer
    writer_should_stop,
    output_files,       \* record type -> the record lines written, after the header
    files_closed,       \* whether the output files are closed
    exception_log,      \* the lines of exception_log.txt, after its title
    futures,            \* the B tasks submitted to the executor, in order
    wpc,                \* where the writer thread is
    batch,              \* the writer's batch
    put_order,          \* history: the lines of the records put on the queue, in order
    late_writes         \* history: the writes to a closed file

vars == <<infile, max_workers, maxsize, pc, pos, pac_names, stats, stats_lock,
          fuzzy_cache, histogram, b_record_queue, writer_should_stop, output_files,
          files_closed, exception_log, futures, wpc, batch, put_order, late_writes>>

\* line number n of the input, split
Line(n) == Lines[infile[n]]

\* d[k] of a defaultdict
Get(d, k, default) == IF k \in DOMAIN d THEN d[k] ELSE default

\* d[k] += v of a defaultdict
Add(d, k, v) == IF k \in DOMAIN d THEN [d EXCEPT ![k] = @ + v] ELSE d @@ (k :> v)

\* stats as the module initialises it
NoStats ==
    [total_contributions |-> 0, contribution_count |-> 0,
     total_expenditures |-> 0, expenditure_count |-> 0,
     total_pac_to_pac |-> 0, pac_to_pac_count |-> 0,
     expenditure_by_purpose |-> <<>>,
     expenditure_count_by_purpose |-> <<>>,
     exceptions |-> [A |-> 0, B |-> 0]]

Init ==
    /\ infile \in Inputs
    /\ max_workers \in {1, MaxWorkers}
    /\ maxsize \in {1, MaxQueue}
    /\ pc = "pass1"
    /\ pos = 0
    /\ pac_names = {}
    /\ stats = NoStats
    /\ stats_lock = 0
    /\ fuzzy_cache = <<>>
    /\ histogram = <<>>
    /\ b_record_queue = <<>>
    /\ writer_should_stop = FALSE
    /\ output_files = [t \in RecordTypes |-> <<>>]
    /\ files_closed = FALSE
    /\ exception_log = <<>>
    /\ futures = <<>>
    /\ wpc = "unstarted"
    /\ batch = <<>>
    /\ put_order = <<>>
    /\ late_writes = 0

(***************************************************************************)
(* The main thread.                                                        *)
(***************************************************************************)
\* whether pass one takes the organization name of a line
IsPacLine(fields) == fields[1] = t1 /\ Len(fields) > 7

\* pass one, one line: pac_names.add(fields[7].lower())
FirstPassLine ==
    /\ pc = "pass1"
    /\ pos < Len(infile)
    /\ pos' = pos + 1
    /\ pac_names' = IF IsPacLine(Line(pos + 1))
                    THEN pac_names \cup {Lower(Line(pos + 1)[8])}
                    ELSE pac_names
    /\ UNCHANGED <<infile, max_workers, maxsize, pc, stats, stats_lock, fuzzy_cache,
                   histogram, b_record_queue, writer_should_stop, output_files,
                   files_closed, exception_log, futures, wpc, batch, put_order,
                   late_writes>>

\* the end of pass one; writer_thread.start() and the executor open pass two
StartSecondPass ==
    /\ pc = "pass1"
    /\ pos = Len(infile)
    /\ pc' = "pass2"
    /\ pos' = 0
    /\ wpc' = "test"
    /\ UNCHANGED <<infile, max_workers, maxsize, pac_names, stats, stats_lock,
                   fuzzy_cache, histogram, b_record_queue, writer_should_stop,
                   output_files, files_closed, exception_log, futures, batch,
                   put_order, late_writes>>

\* the record is written at the head of the file
WriteTo_Front(files, record_type, src, fields) ==
    IF files_closed THEN files
    ELSE [files EXCEPT ![record_type] = <<[src |-> src, fields |-> fields]>> \o @]

\* output_files[record_type].write(...) of the record of line src
WriteTo(files, record_type, src, fields) ==
    IF files_closed THEN files
    ELSE [files EXCEPT ![record_type] = Append(@, [src |-> src, fields |-> fields])]

\* the amount field of an A line
AmountStrA(fields) == IF Len(fields) > 13 THEN fields[14] ELSE <<>>

\* whether float(amount_str) if amount_str else 0 raises ValueError
AmountFails(amount_str) == amount_str # <<>> /\ ~IsNumeric(amount_str)

\* float(amount_str) if amount_str else 0
AmountOf(amount_str) == IF amount_str = <<>> THEN 0 ELSE Float(amount_str)

\* a line with no discriminator, or with one that has no output file
SkipLine ==
    /\ pc = "pass2"
    /\ pos < Len(infile)
    /\ Line(pos + 1)[1] = <<>> \/ Line(pos + 1)[1] \notin RecordTypes
    /\ pos' = pos + 1
    /\ UNCHANGED <<infile, max_workers, maxsize, pc, pac_names, stats, stats_lock,
                   fuzzy_cache, histogram, b_record_queue, writer_should_stop,
                   output_files, files_closed, exception_log, futures, wpc, batch,
                   put_order, late_writes>>

\* an A line: the contribution is counted under stats_lock, or the exception is
\* a line whose amount fails is counted and logged but not written
ReadA_DropFailed ==
    /\ pc = "pass2"
    /\ pos < Len(infile)
    /\ Line(pos + 1)[1] = tA
    /\ stats_lock = 0
    /\ LET fields == Line(pos + 1)
           amount_str == AmountStrA(fields)
       IN  IF AmountFails(amount_str)
           THEN /\ stats' = [stats EXCEPT !.exceptions.A = @ + 1]
                /\ exception_log' = Append(exception_log,
                       [record_type |-> tA, amount |-> amount_str, src |-> pos + 1])
                /\ UNCHANGED output_files
           ELSE /\ stats' = [stats EXCEPT
                                !.total_contributions = @ + AmountOf(amount_str),
                                !.contribution_count = @ + 1]
                /\ output_files' = WriteTo(output_files, tA, pos + 1, fields)
                /\ UNCHANGED exception_log
    /\ pos' = pos + 1
    /\ UNCHANGED <<infile, max_workers, maxsize, pc, pac_names, stats_lock, fuzzy_cache,
                   histogram, b_record_queue, writer_should_stop, files_closed,
                   futures, wpc, batch, put_order, late_writes>>

\* counted and logged, and the line is written
ReadA ==
    /\ pc = "pass2"
    /\ pos < Len(infile)
    /\ Line(pos + 1)[1] = tA
    /\ stats_lock = 0
    /\ LET fields == Line(pos + 1)
           amount_str == AmountStrA(fields)
       IN  /\ IF AmountFails(amount_str)
              THEN /\ stats' = [stats EXCEPT !.exceptions.A = @ + 1]
                   /\ exception_log' = Append(exception_log,
                          [record_type |-> tA, amount |-> amount_str, src |-> pos + 1])
              ELSE /\ stats' = [stats EXCEPT
                                   !.total_contributions = @ + AmountOf(amount_str),
                                   !.contribution_count = @ + 1]
                   /\ UNCHANGED exception_log
           /\ output_files' = WriteTo(output_files, tA, pos + 1, fields)
    /\ pos' = pos + 1
    /\ UNCHANGED <<infile, max_workers, maxsize, pc, pac_names, stats_lock, fuzzy_cache,
                   histogram, b_record_queue, writer_should_stop, files_closed,
                   futures, wpc, batch, put_order, late_writes>>

\* a task of the executor, not started
NewTask(src) ==
    [src |-> src, pc |-> "queued", fields |-> <<>>, match |-> None, score |-> 0,
     scans |-> 0, cached |-> FALSE]

\* a B line: executor.submit(process_b_record, line)
SubmitB ==
    /\ pc = "pass2"
    /\ pos < Len(infile)
    /\ Line(pos + 1)[1] = tB
    /\ futures' = Append(futures, NewTask(pos + 1))
    /\ pos' = pos + 1
    /\ UNCHANGED <<infile, max_workers, maxsize, pc, pac_names, stats, stats_lock,
                   fuzzy_cache, histogram, b_record_queue, writer_should_stop,
                   output_files, files_closed, exception_log, wpc, batch, put_order,
                   late_writes>>

\* a line of any other type: written as it is
WriteOther ==
    /\ pc = "pass2"
    /\ pos < Len(infile)
    /\ Line(pos + 1)[1] \in RecordTypes \ {tA, tB}
    /\ output_files' = WriteTo(output_files, Line(pos + 1)[1], pos + 1, Line(pos + 1))
    /\ pos' = pos + 1
    /\ UNCHANGED <<infile, max_workers, maxsize, pc, pac_names, stats, stats_lock,
                   fuzzy_cache, histogram, b_record_queue, writer_should_stop,
                   files_closed, exception_log, futures, wpc, batch, put_order,
                   late_writes>>

\* the end of the input: the file is closed and the main thread waits
EndOfInput ==
    /\ pc = "pass2"
    /\ pos = Len(infile)
    /\ pc' = "wait"
    /\ UNCHANGED <<infile, max_workers, maxsize, pos, pac_names, stats, stats_lock,
                   fuzzy_cache, histogram, b_record_queue, writer_should_stop,
                   output_files, files_closed, exception_log, futures, wpc, batch,
                   put_order, late_writes>>

\* only the first future is waited for
AllFuturesDone_First == IF futures = <<>> THEN TRUE ELSE futures[1].pc = "done"

\* for future in as_completed(futures): every future is done
AllFuturesDone == \A i \in 1..Len(futures) : futures[i].pc = "done"

\* the loop over as_completed(futures) ends
AwaitFutures ==
    /\ pc = "wait"
    /\ AllFuturesDone
    /\ pc' = "stop"
    /\ UNCHANGED <<infile, max_workers, maxsize, pos, pac_names, stats, stats_lock,
                   fuzzy_cache, histogram, b_record_queue, writer_should_stop,
                   output_files, files_closed, exception_log, futures, wpc, batch,
                   put_order, late_writes>>

\* writer_should_stop = True
SignalStop ==
    /\ pc = "stop"
    /\ writer_should_stop' = TRUE
    /\ pc' = "join"
    /\ UNCHANGED <<infile, max_workers, maxsize, pos, pac_names, stats, stats_lock,
                   fuzzy_cache, histogram, b_record_queue, output_files, files_closed,
                   exception_log, futures, wpc, batch, put_order, late_writes>>

\* the writer is not waited for
WriterJoined_NoWait == TRUE

\* writer_thread.join() returns
WriterJoined == wpc = "exited"

\* writer_thread.join(), and the executor shuts down
JoinWriter ==
    /\ pc = "join"
    /\ WriterJoined
    /\ pc' = "close"
    /\ UNCHANGED <<infile, max_workers, maxsize, pos, pac_names, stats, stats_lock,
                   fuzzy_cache, histogram, b_record_queue, writer_should_stop,
                   output_files, files_closed, exception_log, futures, wpc, batch,
                   put_order, late_writes>>

\* for file in output_files.values(): file.close()
CloseFiles ==
    /\ pc = "close"
    /\ files_closed' = TRUE
    /\ pc' = "done"
    /\ UNCHANGED <<infile, max_workers, maxsize, pos, pac_names, stats, stats_lock,
                   fuzzy_cache, histogram, b_record_queue, writer_should_stop,
                   output_files, exception_log, futures, wpc, batch, put_order,
                   late_writes>>

(***************************************************************************)
(* The worker threads: process_b_record.                                   *)
(***************************************************************************)
\* the minimum taken for the header's width
TooShort_Header(fields) == Len(fields) < expected_fields

\* len(fields) < 14
TooShort(fields) == Len(fields) < MinFieldsB

\* fields padded with "" or cut to len(headers["B"]) fields
Normalized(fields) ==
    IF Len(fields) < expected_fields
    THEN fields \o [k \in 1..(expected_fields - Len(fields)) |-> <<>>]
    ELSE SubSeq(fields, 1, expected_fields)

\* fields[5].lower(), fields[16].lower() and fields[13] of the normalized fields
RecipientName(fields) == Lower(fields[6])
Purpose(fields) == Lower(fields[17])
AmountStr(fields) == fields[14]

\* a task a worker thread is running
Running(i) == futures[i].pc \notin {"queued", "done"}

\* the executor hands its tasks to max_workers threads, in the order submitted
CanStart(i) ==
    /\ futures[i].pc = "queued"
    /\ \A j \in 1..(i - 1) : futures[j].pc # "queued"
    /\ Cardinality({j \in 1..Len(futures) : Running(j)}) < max_workers

\* a line that is too short is counted as an exception before it is dropped
TaskStart_CountShort(i) ==
    /\ CanStart(i)
    /\ LET line == Line(futures[i].src)
       IN  /\ futures' = [futures EXCEPT ![i] =
                  IF TooShort(line) THEN [@ EXCEPT !.pc = "done"]
                  ELSE [@ EXCEPT !.fields = Normalized(line),
                                 !.pc = IF AmountFails(AmountStr(Normalized(line)))
                                        THEN "exc" ELSE "stats"]]
           /\ stats' = IF TooShort(line) THEN [stats EXCEPT !.exceptions.B = @ + 1]
                       ELSE stats
    /\ UNCHANGED <<infile, max_workers, maxsize, pc, pos, pac_names, stats_lock,
                   fuzzy_cache, histogram, b_record_queue, writer_should_stop,
                   output_files, files_closed, exception_log, wpc, batch, put_order,
                   late_writes>>

\* a worker takes task i: the line is split, dropped when too short, else
\* normalized, and its amount parsed
TaskStart(i) ==
    /\ CanStart(i)
    /\ LET line == Line(futures[i].src)
       IN  futures' = [futures EXCEPT ![i] =
               IF TooShort(line) THEN [@ EXCEPT !.pc = "done"]
               ELSE [@ EXCEPT !.fields = Normalized(line),
                              !.pc = IF AmountFails(AmountStr(Normalized(line)))
                                     THEN "exc" ELSE "stats"]]
    /\ UNCHANGED <<infile, max_workers, maxsize, pc, pos, pac_names, stats, stats_lock,
                   fuzzy_cache, histogram, b_record_queue, writer_should_stop,
                   output_files, files_closed, exception_log, wpc, batch, put_order,
                   late_writes>>

\* the lock is released before the maps by purpose are updated
TaskStats_EarlyRelease(i) ==
    /\ futures[i].pc = "stats"
    /\ stats_lock = 0
    /\ stats_lock' = 0
    /\ stats' = [stats EXCEPT
                    !.total_expenditures = @ + AmountOf(AmountStr(futures[i].fields)),
                    !.expenditure_count = @ + 1]
    /\ futures' = [futures EXCEPT ![i].pc = "purpose"]
    /\ UNCHANGED <<infile, max_workers, maxsize, pc, pos, pac_names, fuzzy_cache,
                   histogram, b_record_queue, writer_should_stop, output_files,
                   files_closed, exception_log, wpc, batch, put_order, late_writes>>

\* with stats_lock: total_expenditures and expenditure_count
TaskStats(i) ==
    /\ futures[i].pc = "stats"
    /\ stats_lock = 0
    /\ stats_lock' = i
    /\ stats' = [stats EXCEPT
                    !.total_expenditures = @ + AmountOf(AmountStr(futures[i].fields)),
                    !.expenditure_count = @ + 1]
    /\ futures' = [futures EXCEPT ![i].pc = "purpose"]
    /\ UNCHANGED <<infile, max_workers, maxsize, pc, pos, pac_names, fuzzy_cache,
                   histogram, b_record_queue, writer_should_stop, output_files,
                   files_closed, exception_log, wpc, batch, put_order, late_writes>>

\* still under stats_lock: the two maps by purpose; the lock is released
TaskPurpose(i) ==
    /\ futures[i].pc = "purpose"
    /\ stats_lock = i
    /\ stats_lock' = 0
    /\ stats' = [stats EXCEPT
                    !.expenditure_by_purpose =
                        Add(@, Purpose(futures[i].fields), AmountOf(AmountStr(futures[i].fields))),
                    !.expenditure_count_by_purpose = Add(@, Purpose(futures[i].fields), 1)]
    /\ futures' = [futures EXCEPT ![i].pc =
                      IF RecipientName(futures[i].fields) # <<>> THEN "lookup" ELSE "put"]
    /\ UNCHANGED <<infile, max_workers, maxsize, pc, pos, pac_names, fuzzy_cache,
                   histogram, b_record_queue, writer_should_stop, output_files,
                   files_closed, exception_log, wpc, batch, put_order, late_writes>>

\* the cache is never found to hold the name
CacheHit_Never(name) == FALSE

\* recipient_name in fuzzy_cache
CacheHit(name) == name \in DOMAIN fuzzy_cache

\* the cache is looked up: a hit takes the cached match and score
TaskLookup(i) ==
    /\ futures[i].pc = "lookup"
    /\ LET name == RecipientName(futures[i].fields)
       IN  futures' = [futures EXCEPT ![i] =
               IF CacheHit(name)
               THEN [@ EXCEPT !.match = fuzzy_cache[name][1],
                              !.score = fuzzy_cache[name][2],
                              !.cached = name \in DOMAIN fuzzy_cache,
                              !.pc = "hist"]
               ELSE [@ EXCEPT !.cached = name \in DOMAIN fuzzy_cache, !.pc = "miss"]]
    /\ UNCHANGED <<infile, max_workers, maxsize, pc, pos, pac_names, stats, stats_lock,
                   fuzzy_cache, histogram, b_record_queue, writer_should_stop,
                   output_files, files_closed, exception_log, wpc, batch, put_order,
                   late_writes>>

\* the <<match, score>> of a result of extractOne
MatchOf(result) == IF result = None THEN <<None, 0>> ELSE result

\* a miss: the registry is scanned and the result stored in the cache
TaskMiss(i) ==
    /\ futures[i].pc = "miss"
    /\ LET name == RecipientName(futures[i].fields)
           found == MatchOf(extractOne(name, pac_names))
       IN  /\ fuzzy_cache' = IF name \in DOMAIN fuzzy_cache
                             THEN [fuzzy_cache EXCEPT ![name] = found]
                             ELSE fuzzy_cache @@ (name :> found)
           /\ futures' = [futures EXCEPT ![i].match = found[1], ![i].score = found[2],
                                         ![i].scans = @ + 1, ![i].pc = "hist"]
    /\ UNCHANGED <<infile, max_workers, maxsize, pc, pos, pac_names, stats, stats_lock,
                   histogram, b_record_queue, writer_should_stop, output_files,
                   files_closed, exception_log, wpc, batch, put_order, late_writes>>

\* score // 10 * 10
BinKey(score) == (score \div 10) * 10

\* any(keyword in purpose for keyword in transfer_keywords)
HasKeyword(purpose) == \E k \in 1..Len(transfer_keywords) : Contains(transfer_keywords[k], purpose)

\* match and score >= THRESHOLD and any(...)
IsTransfer(match, score, purpose) ==
    /\ match # None
    /\ match # <<>>
    /\ score >= THRESHOLD
    /\ HasKeyword(purpose)

\* a score is counted twice
Counted_Twice(h, score) == Add(h, BinKey(score), 2)

\* only the scores of a match are counted
Counted_MatchesOnly(h, score) == IF score = 0 THEN h ELSE Add(h, BinKey(score), 1)

\* histogram[bin_key] += 1
Counted(h, score) == Add(h, BinKey(score), 1)

\* fields[-1] = str(score), and the histogram under histogram_lock, which is
\* taken and released within this step
TaskHist(i) ==
    /\ futures[i].pc = "hist"
    /\ histogram' = Counted(histogram, futures[i].score)
    /\ futures' = [futures EXCEPT
                      ![i].fields = [@ EXCEPT ![Len(@)] = Str(futures[i].score)],
                      ![i].pc = IF IsTransfer(futures[i].match, futures[i].score,
                                              Purpose(futures[i].fields))
                                THEN "pac" ELSE "put"]
    /\ UNCHANGED <<infile, max_workers, maxsize, pc, pos, pac_names, stats, stats_lock,
                   fuzzy_cache, b_record_queue, writer_should_stop, output_files,
                   files_closed, exception_log, wpc, batch, put_order, late_writes>>

\* with stats_lock: the PAC-to-PAC transfer
TaskPac(i) ==
    /\ futures[i].pc = "pac"
    /\ stats_lock = 0
    /\ stats' = [stats EXCEPT
                    !.total_pac_to_pac = @ + AmountOf(AmountStr(futures[i].fields)),
                    !.pac_to_pac_count = @ + 1]
    /\ futures' = [futures EXCEPT ![i].pc = "put"]
    /\ UNCHANGED <<infile, max_workers, maxsize, pc, pos, pac_names, stats_lock,
                   fuzzy_cache, histogram, b_record_queue, writer_should_stop,
                   output_files, files_closed, exception_log, wpc, batch, put_order,
                   late_writes>>


\* the counter is skipped when the lock is busy
TaskExc_TryLock(i) ==
    /\ futures[i].pc = "exc"
    /\ stats' = IF stats_lock = 0 THEN [stats EXCEPT !.exceptions.B = @ + 1] ELSE stats
    /\ futures' = [futures EXCEPT ![i].pc = "log"]
    /\ UNCHANGED <<infile, max_workers, maxsize, pc, pos, pac_names, stats_lock,
                   fuzzy_cache, histogram, b_record_queue, writer_should_stop,
                   output_files, files_closed, exception_log, wpc, batch, put_order,
                   late_writes>>

\* the record of the exception is counted as an expenditure too
TaskExc_Counted(i) ==
    /\ futures[i].pc = "exc"
    /\ stats_lock = 0
    /\ stats' = [stats EXCEPT !.exceptions.B = @ + 1, !.expenditure_count = @ + 1]
    /\ futures' = [futures EXCEPT ![i].pc = "log"]
    /\ UNCHANGED <<infile, max_workers, maxsize, pc, pos, pac_names, stats_lock,
                   fuzzy_cache, histogram, b_record_queue, writer_should_stop,
                   output_files, files_closed, exception_log, wpc, batch, put_order,
                   late_writes>>

\* except (ValueError, TypeError): with stats_lock: the B exception counter
TaskExc(i) ==
    /\ futures[i].pc = "exc"
    /\ stats_lock = 0
    /\ stats' = [stats EXCEPT !.exceptions.B = @ + 1]
    /\ futures' = [futures EXCEPT ![i].pc = "log"]
    /\ UNCHANGED <<infile, max_workers, maxsize, pc, pos, pac_names, stats_lock,
                   fuzzy_cache, histogram, b_record_queue, writer_should_stop,
                   output_files, files_closed, exception_log, wpc, batch, put_order,
                   late_writes>>


\* the task returns from the except clause
TaskLog_Return(i) ==
    /\ futures[i].pc = "log"
    /\ exception_log' = Append(exception_log,
           [record_type |-> tB, amount |-> AmountStr(futures[i].fields),
            src |-> futures[i].src])
    /\ futures' = [futures EXCEPT ![i].pc = "done"]
    /\ UNCHANGED <<infile, max_workers, maxsize, pc, pos, pac_names, stats, stats_lock,
                   fuzzy_cache, histogram, b_record_queue, writer_should_stop,
                   output_files, files_closed, wpc, batch, put_order, late_writes>>

\* exception_log.write(...)
TaskLog(i) ==
    /\ futures[i].pc = "log"
    /\ exception_log' = Append(exception_log,
           [record_type |-> tB, amount |-> AmountStr(futures[i].fields),
            src |-> futures[i].src])
    /\ futures' = [futures EXCEPT ![i].pc = "put"]
    /\ UNCHANGED <<infile, max_workers, maxsize, pc, pos, pac_names, stats, stats_lock,
                   fuzzy_cache, histogram, b_record_queue, writer_should_stop,
                   output_files, files_closed, wpc, batch, put_order, late_writes>>

\* the worker writes the record to the B file itself
TaskPut_Direct(i) ==
    /\ futures[i].pc = "put"
    /\ output_files' = WriteTo(output_files, tB, futures[i].src, futures[i].fields)
    /\ futures' = [futures EXCEPT ![i].pc = "done"]
    /\ UNCHANGED <<infile, max_workers, maxsize, pc, pos, pac_names, stats, stats_lock,
                   fuzzy_cache, histogram, b_record_queue, writer_should_stop,
                   files_closed, exception_log, wpc, batch, put_order, late_writes>>

\* b_record_queue.put(fields), which blocks while the queue is full
TaskPut(i) ==
    /\ futures[i].pc = "put"
    /\ Len(b_record_queue) < maxsize
    /\ b_record_queue' = Append(b_record_queue,
           [src |-> futures[i].src, fields |-> futures[i].fields])
    /\ put_order' = Append(put_order, futures[i].src)
    /\ futures' = [futures EXCEPT ![i].pc = "done"]
    /\ UNCHANGED <<infile, max_workers, maxsize, pc, pos, pac_names, stats, stats_lock,
                   fuzzy_cache, histogram, writer_should_stop, output_files,
                   files_closed, exception_log, wpc, batch, late_writes>>

(***************************************************************************)
(* The writer thread: write_b_records.                                     *)
(***************************************************************************)
\* the writer never sees the stop signal
WriterContinues_NoStop == TRUE

\* not writer_should_stop or not b_record_queue.empty()
WriterContinues == ~writer_should_stop \/ b_record_queue # <<>>

\* the records of a batch written last record first
RECURSIVE Flushed_Reversed(_, _)
Flushed_Reversed(files, b) ==
    IF b = <<>> THEN files
    ELSE WriteTo(Flushed_Reversed(files, Tail(b)), tB, b[1].src, b[1].fields)

\* the records of a batch written to the B file under write_lock, which no other
\* thread takes
RECURSIVE Flushed(_, _)
Flushed(files, b) ==
    IF b = <<>> THEN files
    ELSE Flushed(WriteTo(files, tB, b[1].src, b[1].fields), Tail(b))

\* the writes of a flush that find the file closed
LateWrites(b) == IF files_closed THEN Len(b) ELSE 0

\* the test of the while loop
WriterTest ==
    /\ wpc = "test"
    /\ wpc' = IF WriterContinues THEN "get" ELSE "final"
    /\ UNCHANGED <<infile, max_workers, maxsize, pc, pos, pac_names, stats, stats_lock,
                   fuzzy_cache, histogram, b_record_queue, writer_should_stop,
                   output_files, files_closed, exception_log, futures, batch,
                   put_order, late_writes>>

\* len(batch) >= 1000
BatchFull(b) == Len(b) >= BatchSize

\* b_record_queue.get(timeout=1) returns a record: it joins the batch, and a
\* full batch is written
WriterGet ==
    /\ wpc = "get"
    /\ b_record_queue # <<>>
    /\ b_record_queue' = Tail(b_record_queue)
    /\ LET grown == Append(batch, Head(b_record_queue))
       IN  IF BatchFull(grown)
           THEN /\ output_files' = Flushed(output_files, grown)
                /\ late_writes' = late_writes + LateWrites(grown)
                /\ batch' = <<>>
           ELSE /\ batch' = grown
                /\ UNCHANGED <<output_files, late_writes>>
    /\ wpc' = "test"
    /\ UNCHANGED <<infile, max_workers, maxsize, pc, pos, pac_names, stats, stats_lock,
                   fuzzy_cache, histogram, writer_should_stop, files_closed,
                   exception_log, futures, put_order>>

\* b_record_queue.get(timeout=1) raises queue.Empty: the batch is written
WriterTimeout ==
    /\ wpc = "get"
    /\ b_record_queue = <<>>
    /\ output_files' = Flushed(output_files, batch)
    /\ late_writes' = late_writes + LateWrites(batch)
    /\ batch' = <<>>
    /\ wpc' = "test"
    /\ UNCHANGED <<infile, max_workers, maxsize, pc, pos, pac_names, stats, stats_lock,
                   fuzzy_cache, histogram, b_record_queue, writer_should_stop,
                   files_closed, exception_log, futures, put_order>>

\* the final flush, and the thread ends
WriterFinal ==
    /\ wpc = "final"
    /\ output_files' = Flushed(output_files, batch)
    /\ late_writes' = late_writes + LateWrites(batch)
    /\ batch' = <<>>
    /\ wpc' = "exited"
    /\ UNCHANGED <<infile, max_workers, maxsize, pc, pos, pac_names, stats, stats_lock,
                   fuzzy_cache, histogram, b_record_queue, writer_should_stop,
                   files_closed, exception_log, futures, put_order>>

(***************************************************************************)
(* The specification.                                                      *)
(***************************************************************************)
Main ==
    \/ FirstPassLine
    \/ StartSecondPass
    \/ SkipLine
    \/ ReadA
    \/ SubmitB
    \/ WriteOther
    \/ EndOfInput
    \/ AwaitFutures
    \/ SignalStop
    \/ JoinWriter
    \/ CloseFiles

Worker(i) ==
    \/ TaskStart(i)
    \/ TaskStats(i)
    \/ TaskPurpose(i)
    \/ TaskLookup(i)
    \/ TaskMiss(i)
    \/ TaskHist(i)
    \/ TaskPac(i)
    \/ TaskExc(i)
    \/ TaskLog(i)
    \/ TaskPut(i)

Writer ==
    \/ WriterTest
    \/ WriterGet
    \/ WriterTimeout
    \/ WriterFinal

Next ==
    \/ FirstPassLine
    \/ StartSecondPass
    \/ SkipLine
    \/ ReadA
    \/ SubmitB
    \/ WriteOther
    \/ EndOfInput
    \/ AwaitFutures
    \/ SignalStop
    \/ JoinWriter
    \/ CloseFiles
    \/ \E i \in 1..Len(futures) : TaskStart(i)
    \/ \E i \in 1..Len(futures) : TaskStats(i)
    \/ \E i \in 1..Len(futures) : TaskPurpose(i)
    \/ \E i \in 1..Len(futures) : TaskLookup(i)
    \/ \E i \in 1..Len(futures) : TaskMiss(i)
    \/ \E i \in 1..Len(futures) : TaskHist(i)
    \/ \E i \in 1..Len(futures) : TaskPac(i)
    \/ \E i \in 1..Len(futures) : TaskExc(i)
    \/ \E i \in 1..Len(futures) : TaskLog(i)
    \/ \E i \in 1..Len(futures) : TaskPut(i)
    \/ WriterTest
    \/ WriterGet
    \/ WriterTimeout
    \/ WriterFinal

Spec == Init /\ [][Next]_vars

\* every thread that can run does run
FairSpec ==
    /\ Spec
    /\ WF_vars(Main)
    /\ WF_vars(Writer)
    /\ \A i \in 1..MaxLines : WF_vars(i <= Len(futures) /\ Worker(i))

(***************************************************************************)
(* Properties.                                                             *)
(***************************************************************************)
\* the record lines of line n in the file of a record type
Occurrences(record_type, n) ==
    Cardinality({k \in DOMAIN output_files[record_type] :
                    output_files[record_type][k].src = n})

\* a line pass two gives a record line: a recognized discriminator, and for a
\* B line at least 14 fields
Kept(fields) ==
    /\ fields[1] \in RecordTypes
    /\ fields[1] = tB => Len(fields) >= 14

\* C1: after a completed run every input line with a recognized discriminator
\* has exactly one record line, in the file of its type and in no other file,
\* except the B lines of fewer than 14 fields, which have none; a line with an
\* empty or unrecognized discriminator has none.
C1_ExactlyOneLine ==
    pc = "done" =>
        \A n \in 1..Len(infile) : \A t \in RecordTypes :
            Occurrences(t, n) = IF Kept(Line(n)) /\ t = Line(n)[1] THEN 1 ELSE 0

C1_Witness ==
    /\ pc = "done"
    /\ \E n \in 1..Len(infile) : Line(n)[1] = tB /\ Len(Line(n)) >= 14
    /\ \E n \in 1..Len(infile) : Line(n)[1] = tB /\ Len(Line(n)) < 14

\* C2: when the files are closed the write queue and the writer's batch are
\* empty, the writer thread has exited and every record put on the queue is in
\* the B file; nothing is ever written to a closed file.
C2_ClosedAfterDrain ==
    /\ late_writes = 0
    /\ files_closed =>
          /\ b_record_queue = <<>>
          /\ batch = <<>>
          /\ wpc = "exited"
          /\ \A k \in DOMAIN put_order : Occurrences(tB, put_order[k]) = 1

C2_Witness == files_closed /\ Len(put_order) >= 2

\* the B lines of the input
BLines == {n \in 1..Len(infile) : Line(n)[1] = tB}

\* C3: the stop signal is raised only after every B line of the input has been
\* submitted and every submitted task has finished, so no task is left that
\* could put a record on the queue afterwards.
C3_StopAfterAllTasks ==
    writer_should_stop =>
        /\ Len(futures) = Cardinality(BLines)
        /\ \A i \in 1..Len(futures) : futures[i].pc = "done"

C3_Witness == writer_should_stop /\ Len(put_order) >= 2 /\ ~files_closed

\* C4: under fair scheduling every run ends, for pool size 1 with queue
\* capacity 1 as for the larger pool and queue: every B line is submitted, every
\* task finishes, the writer thread exits and the main thread closes the files.
C4_Terminates ==
    <>(/\ pc = "done"
       /\ files_closed
       /\ wpc = "exited"
       /\ Len(futures) = Cardinality(BLines)
       /\ \A i \in 1..Len(futures) : futures[i].pc = "done")

\* a worker blocked on the full queue of capacity 1, in the pool of size 1
C4_Witness ==
    /\ max_workers = 1
    /\ maxsize = 1
    /\ Len(b_record_queue) = maxsize
    /\ \E i \in 1..Len(futures) : futures[i].pc = "put"

\* the names pass one collects from the whole input
Registry ==
    {Lower(Line(n)[8]) : n \in {m \in 1..Len(infile) : IsPacLine(Line(m))}}

\* the statistics and the histogram after the first n lines, were the lines
\* processed one after the other in the order of the input
RECURSIVE Sequential(_)
Sequential(n) ==
    IF n = 0 THEN [stats |-> NoStats, histogram |-> <<>>]
    ELSE
      LET prev == Sequential(n - 1)
          line == Line(n)
          fields == Normalized(line)
          amount == AmountOf(AmountStr(fields))
          found == MatchOf(extractOne(RecipientName(fields), Registry))
          spent == [prev.stats EXCEPT
                       !.total_expenditures = @ + amount,
                       !.expenditure_count = @ + 1,
                       !.expenditure_by_purpose = Add(@, Purpose(fields), amount),
                       !.expenditure_count_by_purpose = Add(@, Purpose(fields), 1)]
      IN
        IF line[1] = tA
        THEN IF AmountFails(AmountStrA(line))
             THEN [prev EXCEPT !.stats.exceptions.A = @ + 1]
             ELSE [prev EXCEPT !.stats.total_contributions = @ + AmountOf(AmountStrA(line)),
                               !.stats.contribution_count = @ + 1]
        ELSE IF line[1] # tB \/ Len(line) < 14 THEN prev
        ELSE IF AmountFails(AmountStr(fields))
             THEN [prev EXCEPT !.stats.exceptions.B = @ + 1]
        ELSE IF RecipientName(fields) = <<>> THEN [prev EXCEPT !.stats = spent]
        ELSE [stats |->
                 IF IsTransfer(found[1], found[2], Purpose(fields))
                 THEN [spent EXCEPT !.total_pac_to_pac = @ + amount,
                                    !.pac_to_pac_count = @ + 1]
                 ELSE spent,
              histogram |-> Add(prev.histogram, BinKey(found[2]), 1)]

RECURSIVE SumOver(_, _)
SumOver(f, D) ==
    IF D = {} THEN 0
    ELSE LET k == CHOOSE x \in D : TRUE
         IN  f[k] + SumOver(f, D \ {k})

Total(f) == SumOver(f, DOMAIN f)

\* C6: whenever no thread holds stats_lock, the amounts of
\* expenditure_by_purpose add up to total_expenditures.
C6_PurposeSum ==
    stats_lock = 0 => Total(stats.expenditure_by_purpose) = stats.total_expenditures

C6_Witness ==
    /\ stats_lock = 0
    /\ Cardinality(DOMAIN stats.expenditure_by_purpose) >= 2
    /\ stats.total_expenditures # 0

\* the B lines whose record reaches the lookup of the recipient name: at least
\* 14 fields, an amount that is empty or numeric, a recipient name
LookedUp ==
    {n \in BLines : /\ Len(Line(n)) >= 14
                    /\ ~AmountFails(Line(n)[14])
                    /\ Line(n)[6] # <<>>}

\* the B lines with a recipient name
Named == {n \in BLines : Len(Line(n)) >= 6 /\ Line(n)[6] # <<>>}

\* C7, as stated: after a completed run the histogram counts add up to the
\* number of B lines with a non-empty recipient name.
C7_AllNamedCounted == pc = "done" => Total(histogram) = Cardinality(Named)

\* C7, amended: after a completed run the histogram counts add up to the number
\* of B lines with at least 14 fields, an empty or numeric amount and a
\* non-empty recipient name.
C7_LookedUpCounted == pc = "done" => Total(histogram) = Cardinality(LookedUp)

C7_Witness ==
    /\ pc = "done"
    /\ Total(histogram) >= 1
    /\ Cardinality(Named) > Cardinality(LookedUp)

\* the B lines of at least 14 fields with a non-numeric amount
BadAmount == {n \in BLines : Len(Line(n)) >= 14 /\ AmountFails(Line(n)[14])}

\* the lines of the exception log for B line n
Logged(n) ==
    Cardinality({k \in DOMAIN exception_log :
                    exception_log[k].src = n /\ exception_log[k].record_type = tB})

\* the times the record of line n was put on the queue
Puts(n) == Cardinality({k \in DOMAIN put_order : put_order[k] = n})

\* C8: a B line of at least 14 fields with a non-numeric amount adds exactly 1
\* to the B exception counter and one line to the exception log, and its record
\* is put on the queue once and is one line of the B file.
C8_BadAmountKept ==
    pc = "done" =>
        /\ stats.exceptions.B = Cardinality(BadAmount)
        /\ \A n \in BLines : Logged(n) = IF n \in BadAmount THEN 1 ELSE 0
        /\ \A n \in BadAmount : Puts(n) = 1 /\ Occurrences(tB, n) = 1

C8_Witness == pc = "done" /\ Cardinality(BadAmount) = 2 /\ stats.exceptions.B = 2

\* what the lookups of the tasks have done: a lookup that finds the name cached
\* scans nothing, a finished lookup has the result the cache holds, and an
\* empty name is never looked up
C9_Lookups ==
    \A i \in 1..Len(futures) :
        LET t == futures[i]
        IN  /\ t.cached => t.scans = 0
            /\ t.scans <= 1
            /\ (t.cached \/ t.scans > 0) =>
                  /\ RecipientName(t.fields) \in DOMAIN fuzzy_cache
                  /\ fuzzy_cache[RecipientName(t.fields)] = <<t.match, t.score>>
            /\ (t.fields # <<>> /\ RecipientName(t.fields) = <<>>) =>
                  /\ ~t.cached
                  /\ t.scans = 0
                  /\ t.pc \notin {"lookup", "miss", "hist", "pac"}

\* an entry of the cache stays as it is
C9_EntriesKept ==
    \A name \in DOMAIN fuzzy_cache :
        name \in DOMAIN fuzzy_cache' /\ fuzzy_cache'[name] = fuzzy_cache[name]

\* C9: once the result of a name is in the cache, a lookup of that name that
\* starts afterwards returns that result and scans no registry; an entry of the
\* cache is never changed or removed; an empty name is never looked up.
C9_Memoized == [](C9_Lookups) /\ [][C9_EntriesKept]_vars

C9_Witness ==
    \E i \in 1..Len(futures) :
        /\ futures[i].cached
        /\ futures[i].pc = "done"

\* C10: no two workers are at the same time between the membership check of
\* the cache and the insert.
C10_OneWorkerFillsCache ==
    Cardinality({i \in 1..Len(futures) : futures[i].pc = "miss"}) <= 1

\* the tasks past the test of the transfer whose score is at least THRESHOLD
\* and whose lower-cased purpose contains a keyword
ScoredTransfers ==
    {i \in 1..Len(futures) :
        /\ futures[i].pc \in {"put", "done"}
        /\ futures[i].score >= THRESHOLD
        /\ HasKeyword(Purpose(futures[i].fields))}

\* the amounts of a set of tasks
Amounts(S) == SumOver([i \in S |-> AmountOf(AmountStr(futures[i].fields))], S)

\* C11: a record that reaches the lookup is recorded as a PAC-to-PAC transfer
\* exactly when its score is at least THRESHOLD and its lower-cased purpose
\* contains a keyword: pac_to_pac_count is the number of such records and
\* total_pac_to_pac the sum of their amounts.
C11_ScoreAndKeyword ==
    /\ stats.pac_to_pac_count = Cardinality(ScoredTransfers)
    /\ stats.total_pac_to_pac = Amounts(ScoredTransfers)

\* a record with a score of 100 and a keyword whose match is the empty name
C11_Witness ==
    /\ pc = "done"
    /\ \E i \in ScoredTransfers : futures[i].match = <<>> /\ futures[i].score = 100
    /\ stats.pac_to_pac_count = 0

\* the trailing field of a record
Trailing(fields) == fields[Len(fields)]

\* a record whose lookup has no candidate: no name in the registry, or an empty
\* recipient name
NoCandidate(fields) == Registry = {} \/ RecipientName(fields) = <<>>

\* C12: every record line of the B file ends with a numeric score from 0 to
\* 100, and with the score 0 when the lookup has no candidate (an empty
\* registry or an empty recipient name).
C12_TrailingScore ==
    \A k \in DOMAIN output_files[tB] :
        LET fields == output_files[tB][k].fields
        IN  /\ IsNumeric(Trailing(fields))
            /\ Float(Trailing(fields)) \in 0..100
            /\ NoCandidate(fields) => Trailing(fields) = Str(0)

\* a record line of the B file with an empty recipient name and an empty
\* trailing field
C12_Witness ==
    \E k \in DOMAIN output_files[tB] :
        LET fields == output_files[tB][k].fields
        IN  RecipientName(fields) = <<>> /\ Trailing(fields) = <<>>

\* C13: every record line written to the file of a record type has exactly
\* the number of fields of the header of that type, the record having been
\* padded or cut, and after a completed run no line with a recognized
\* discriminator (and, if a B line, at least 14 fields) is missing from its file.
C13_SchemaWidth ==
    /\ \A t \in RecordTypes : \A k \in DOMAIN output_files[t] :
            Len(output_files[t][k].fields) = HeaderWidth(t)
    /\ pc = "done" =>
            \A n \in 1..Len(infile) : Kept(Line(n)) => Occurrences(Line(n)[1], n) = 1

\* a record line of fewer fields than its header, in the file of a type other
\* than B
C13_Witness ==
    \E t \in RecordTypes \ {tB} : \E k \in DOMAIN output_files[t] :
        Len(output_files[t][k].fields) < HeaderWidth(t)

\* the lines pass two has read
LinesRead == IF pc = "pass1" THEN 0 ELSE pos

\* the lines of a record type among the first n lines of the input, in the
\* order of the input, as they are read
RECURSIVE LinesOfType(_, _)
LinesOfType(record_type, n) ==
    IF n = 0 THEN <<>>
    ELSE IF Line(n)[1] = record_type
         THEN Append(LinesOfType(record_type, n - 1), [src |-> n, fields |-> Line(n)])
         ELSE LinesOfType(record_type, n - 1)

\* C14: the file of every record type other than B, the A file included, holds
\* the lines of its type that pass two has read, in the order of the input.
C14_InputOrder ==
    LET read == LinesRead
    IN  \A t \in RecordTypes \ {tB} :
            /\ Len(output_files[t]) <= read
            /\ output_files[t] = LinesOfType(t, read)

C14_Witness ==
    /\ pc = "done"
    /\ Len(output_files[tA]) = 2
    /\ infile[1] # infile[2]

\* the input lines of a sequence of records
Srcs(records) == [k \in 1..Len(records) |-> records[k].src]

\* C15: the B file, then the writer's batch, then the queue hold the records
\* in the order in which they were put on the queue, whichever flush wrote
\* them (a full batch, an empty queue, the final flush); between two steps of
\* the writer the batch holds fewer records than the batch size, so that with
\* the record it takes next it never holds more than the batch size.
C15_FifoBatches ==
    /\ Srcs(output_files[tB]) \o Srcs(batch) \o Srcs(b_record_queue) = put_order
    /\ Len(batch) < BatchSize

\* two records written in the order of their arrival, which is not the order
\* of the input
C15_Witness ==
    /\ wpc = "exited"
    /\ Len(output_files[tB]) = 2
    /\ put_order[1] > put_order[2]

\* C16: every step that writes to the B file is a step of the writer thread,
\* every step that writes to the file of another type is a step of the main
\* thread, and no step of a worker writes to any file.
C16_OneWriterPerFile ==
    [][/\ output_files'[tB] # output_files[tB] => Writer
       /\ (\E t \in RecordTypes \ {tB} : output_files'[t] # output_files[t]) => Main
       /\ \A i \in 1..Len(futures) : Worker(i) => UNCHANGED output_files]_vars

C16_Witness ==
    /\ pc = "done"
    /\ output_files[tB] # <<>>
    /\ \E t \in RecordTypes \ {tB} : output_files[t] # <<>>

\* the A lines pass two has read, and those of them whose amount fails to parse
ALinesRead == {n \in 1..LinesRead : Line(n)[1] = tA}
AFailed == {n \in ALinesRead : AmountFails(AmountStrA(Line(n)))}

\* the lines of the exception log for A line n
LoggedA(n) ==
    Cardinality({k \in DOMAIN exception_log :
                    exception_log[k].src = n /\ exception_log[k].record_type = tA})

\* C17: an A line whose amount is not numeric adds 1 to the A exception counter
\* and one line to the exception log and leaves total_contributions and
\* contribution_count as they are; an A line whose amount parses adds the
\* amount to total_contributions and 1 to contribution_count, with no
\* exception; either way the line is in the A file with the fields it had.
C17_ContributionOrException ==
    LET failed == AFailed
        parsed == ALinesRead \ failed
    IN  /\ stats.exceptions.A = Cardinality(failed)
        /\ stats.contribution_count = Cardinality(parsed)
        /\ stats.total_contributions =
               SumOver([n \in parsed |-> AmountOf(AmountStrA(Line(n)))], parsed)
        /\ \A n \in failed : LoggedA(n) = 1
        /\ \A n \in parsed : LoggedA(n) = 0
        /\ \A n \in failed \cup parsed :
               /\ Occurrences(tA, n) = 1
               /\ \E k \in DOMAIN output_files[tA] :
                      output_files[tA][k] = [src |-> n, fields |-> Line(n)]

C17_Witness ==
    /\ pc = "done"
    /\ stats.exceptions.A = 1
    /\ stats.contribution_count = 1
    /\ stats.total_contributions = 5
    /\ Len(output_files[tA]) = 2

\* a step of task i: a worker thread moves it
StepOf(i) == futures'[i] # futures[i]

\* C18: the step that takes a B line of fewer than 14 fields ends its task at
\* once and changes no statistic, neither the cache nor the histogram, writes
\* nothing to the exception log and puts nothing on the queue.
C18_ShortLineDropped ==
    [][\A i \in 1..Len(futures) :
          (StepOf(i) /\ TooShort(Line(futures[i].src))) =>
              /\ futures[i].pc = "queued"
              /\ futures'[i] = [futures[i] EXCEPT !.pc = "done"]
              /\ UNCHANGED <<stats, fuzzy_cache, histogram, exception_log,
                             b_record_queue, put_order, output_files>>]_vars

\* a short line dropped beside a record that is counted and written
C18_Witness ==
    /\ pc = "done"
    /\ \E i \in 1..Len(futures) :
           futures[i].pc = "done" /\ TooShort(Line(futures[i].src))
    /\ stats.expenditure_count = 1
    /\ Len(output_files[tB]) = 1

\* C19: no step of the task of a B line with a non-numeric amount changes
\* total_expenditures, expenditure_count, the two maps by purpose, the cache,
\* the histogram, total_pac_to_pac or pac_to_pac_count, and none is a lookup;
\* such a step changes at most the B exception counter, the exception log and
\* the queue.
C19_BadAmountFrame ==
    [][\A i \in 1..Len(futures) :
          (StepOf(i) /\ futures[i].src \in BadAmount) =>
              /\ stats' = [stats EXCEPT !.exceptions.B = stats'.exceptions.B]
              /\ UNCHANGED <<fuzzy_cache, histogram, output_files>>
              /\ futures'[i].pc \in {"exc", "log", "put", "done"}
              /\ futures'[i].scans = 0
              /\ ~futures'[i].cached
              /\ futures'[i].score = 0]_vars

\* the record of a non-numeric amount counted as an exception, logged and put
\* on the queue beside a record that is counted as an expenditure
C19_Witness ==
    /\ pc = "done"
    /\ Cardinality(BadAmount) = 1
    /\ stats.exceptions.B = 1
    /\ Len(exception_log) = 1
    /\ stats.expenditure_count = 1
    /\ Len(put_order) = 2

\* the tasks that have reached the lookup of the recipient name, past the test
\* of the cache: their line has at least 14 fields, an amount that is empty or
\* numeric, and a recipient name
ReachedLookup ==
    {i \in 1..Len(futures) :
        /\ futures[i].pc \in {"miss", "hist", "pac", "put", "done"}
        /\ LET line == Line(futures[i].src)
           IN  /\ Len(line) >= 14
               /\ ~AmountFails(line[14])
               /\ line[6] # <<>>}

\* those of them that have not yet counted their score in the histogram
Uncounted == {i \in 1..Len(futures) : futures[i].pc \in {"miss", "hist"}}

\* C20, as stated: in every state of pass two pac_to_pac_count is at most the
\* sum of the histogram counts, which is at most expenditure_count and equals
\* the number of B records that have reached the lookup of the recipient name.
C20_HistogramIsLookups ==
    pc # "pass1" =>
        LET counted == Total(histogram)
        IN  /\ stats.pac_to_pac_count <= counted
            /\ counted <= stats.expenditure_count
            /\ counted = Cardinality(ReachedLookup)

\* C20, amended: in every state of pass two pac_to_pac_count is at most the sum
\* of the histogram counts, which is at most expenditure_count and equals the
\* number of B records that have reached the lookup less those whose worker
\* has not yet counted the score; the two numbers are equal when no worker is
\* between the lookup and the histogram.
C20_HistogramChain ==
    pc # "pass1" =>
        LET counted == Total(histogram)
        IN  /\ stats.pac_to_pac_count <= counted
            /\ counted <= stats.expenditure_count
            /\ counted = Cardinality(ReachedLookup) - Cardinality(Uncounted)

\* two expenditures, one of them with a score in the histogram
C20_Witness ==
    /\ pc = "done"
    /\ stats.expenditure_count = 2
    /\ Total(histogram) = 1
    /\ Cardinality(ReachedLookup) = 1

====
